---- MODULE Spec2Model ----
(***************************************************************************)
(* The notebook execution layer of CoreDB's SQL notebook                    *)
(* (frontend/src/App.tsx): the cell store, single-cell and run-all         *)
(* execution, the bounded history log with its startup load, the schema    *)
(* cache and the database reset, together with the requests in flight to   *)
(* the remote engine.                                                      *)
(*                                                                         *)
(* React state is modelled by one variable per useState hook.  An event    *)
(* handler, and each continuation of an async function after an await, is  *)
(* one atomic action (the UI runs on a single event loop).  The view is    *)
(* committed before the next user event, so a click handler reads the      *)
(* current state; an async function keeps the values its closure captured  *)
(* when it was invoked (the cell and its query text in executeCell, the    *)
(* cell list in executeAllCells).                                          *)
(*                                                                         *)
(* Query text is a sequence of one-character strings, so that trim,        *)
(* toUpperCase and startsWith are computed as the code computes them.      *)
(***************************************************************************)
EXTENDS Integers, Sequences, FiniteSets, TLC

\* ------------------------------------------------------------------ bounds

\* Cells the store may hold (addCell is not offered beyond it).
MaxCells == 3
\* Last value of the clock; the clock starts at 2, apart from the id "cell-1".
MaxClock == 3
\* loadTables invocations in flight that a click on the refresh button may add to.
MaxTableCalls == 2
\* config.MAX_HISTORY_ITEMS (20 in the shipped config.ts), scaled so that the
\* cap is exceeded within MaxExec executions.
MAX_HISTORY_ITEMS == 2
\* Execute requests issued in one behaviour: enough to exceed the history cap.
MaxExec == MAX_HISTORY_ITEMS + 1

\* ------------------------------------------------------------------ text

Lower == <<"a","b","c","d","e","f","g","h","i","j","k","l","m","n","o","p","q","r","s","t","u","v","w","x","y","z">>
Upper == <<"A","B","C","D","E","F","G","H","I","J","K","L","M","N","O","P","Q","R","S","T","U","V","W","X","Y","Z">>
WhiteSpace == {" ", "\t", "\n"}

\* String.prototype.trim
RECURSIVE trimStart(_)
trimStart(s) == IF s # <<>> /\ Head(s) \in WhiteSpace THEN trimStart(Tail(s)) ELSE s

RECURSIVE trimEnd(_)
trimEnd(s) ==
  IF s # <<>> /\ s[Len(s)] \in WhiteSpace THEN trimEnd(SubSeq(s, 1, Len(s) - 1)) ELSE s

trim(s) == trimEnd(trimStart(s))

\* String.prototype.toUpperCase
upperChar(c) ==
  IF \E k \in 1..26 : Lower[k] = c THEN Upper[CHOOSE k \in 1..26 : Lower[k] = c] ELSE c

toUpperCase(s) == IF s = <<>> THEN <<>> ELSE [i \in 1..Len(s) |-> upperChar(s[i])]

\* String.prototype.startsWith
startsWith(s, p) == Len(s) >= Len(p) /\ SubSeq(s, 1, Len(p)) = p

CREATE_TABLE == <<"C","R","E","A","T","E"," ","T","A","B","L","E">>
DROP_TABLE == <<"D","R","O","P"," ","T","A","B","L","E">>

\* The statements the model types into cells.
DEFAULT_QUERY == <<"S","E","L","E","C","T"," ","*"," ","F","R","O","M"," ","u","s","e","r","s",";">>
QEmpty == <<>>
QBlank == <<" ","\n">>
QCreate == <<"C","R","E","A","T","E"," ","T","A","B","L","E"," ","t","(","i","d"," ","I","N","T"," ","P","R","I","M","A","R","Y"," ","K","E","Y",")">>
QCreateLower == <<" "," ","c","r","e","a","t","e"," ","t","a","b","l","e"," ","t"," ","(","i","d"," ","i","n","t"," ","p","r","i","m","a","r","y"," ","k","e","y",")",";">>
QInsert == <<"I","N","S","E","R","T"," ","I","N","T","O"," ","t"," ","V","A","L","U","E","S","(","1",")">>
QSelect == <<"S","E","L","E","C","T"," ","*"," ","F","R","O","M"," ","t",";">>
QDrop == <<"D","R","O","P"," ","T","A","B","L","E"," ","t">>

\* What the editor may put into a cell in the full specification.
Texts == {QBlank, QCreateLower, QSelect}

\* ------------------------------------------------------------------ values

\* A nullable number (affected_rows, the row list of a result) when it is null.
NULL == -1
\* cell.result when it is null; a result r is held as <<r>>.
Absent == <<>>

CellId(n) == "cell-" \o ToString(n)

VARIABLES
  cells,            \* useState<Cell[]>
  history,          \* useState<QueryHistory[]>
  isRunningAll,     \* useState<boolean>
  tables,           \* useState<TableInfo[]>
  isLoadingTables,  \* useState<boolean>
  now,              \* Date.now()
  issued,           \* execute requests issued so far
  executes,         \* the executeCell invocations awaiting axios.post
  runAll,           \* the executeAllCells invocation: its closure and position
  tableCalls,       \* the loadTables invocations awaiting axios.get, oldest first
  db,               \* the remote engine's database
  settled,          \* history variable: the executeCell invocation that completed last
  appended,         \* history variable: the history items appended, newest first
  tablesFrom,       \* history variable: the caller of the loadTables that set tables
  historyCall,      \* the loadHistory invocation of the mount effect
  serverHistory,    \* the remote engine's history of the session, newest first
  resetCalls,       \* the resetDatabase invocations awaiting axios.post, oldest first
  resetIssued,      \* reset requests issued so far
  resetSettled,     \* history variable: the resetDatabase invocation that completed last
  returned,         \* history variable: the cell of the executeCell that returned at its guard
  arrived           \* history variable: the successful tables response received last, and
                    \* the caller of the one received before it

vars == <<cells, history, isRunningAll, tables, isLoadingTables, now, issued,
          executes, runAll, tableCalls, db, settled, appended, tablesFrom,
          historyCall, serverHistory, resetCalls, resetIssued, resetSettled, returned,
          arrived>>

\* The state of the history load and of reset, which the other commands leave alone.
sessionVars == <<historyCall, serverHistory, resetCalls, resetIssued, resetSettled, returned,
                 arrived>>


\* ------------------------------------------------------------------ cell store

InitialCell ==
  [id |-> "cell-1", query |-> DEFAULT_QUERY, result |-> Absent,
   isExecuting |-> FALSE, isCollapsed |-> FALSE]

\* prev.map(...) is written [i \in 1..Len(cs) |-> ...] below.

\* cells.find(c => c.id === cellId): the index of the first match, 0 when none.
find(cs, cellId) ==
  IF \E i \in 1..Len(cs) : cs[i].id = cellId
  THEN CHOOSE i \in 1..Len(cs) :
         cs[i].id = cellId /\ \A j \in 1..(i - 1) : cs[j].id # cellId
  ELSE 0

newCell(t) ==
  [id |-> CellId(t), query |-> <<>>, result |-> Absent,
   isExecuting |-> FALSE, isCollapsed |-> FALSE]

\* An add that puts the new cell first.
addCellFirst(cs, t) == <<newCell(t)>> \o cs

addCell(cs, t) == Append(cs, newCell(t))

deleteCell(cs, cellId) ==
  IF Len(cs) <= 1 THEN cs ELSE SelectSeq(cs, LAMBDA c : c.id # cellId)

\* An edit that also takes the cell out of its executing state.
updateCellQueryIdle(cs, cellId, query) ==
  [i \in 1..Len(cs) |->
    IF cs[i].id = cellId THEN [cs[i] EXCEPT !.query = query, !.isExecuting = FALSE] ELSE cs[i]]

updateCellQuery(cs, cellId, query) ==
  [i \in 1..Len(cs) |->
    IF cs[i].id = cellId THEN [cs[i] EXCEPT !.query = query] ELSE cs[i]]

\* A collapse command that collapses the cell whatever its state.
collapseCell(cs, cellId) ==
  [i \in 1..Len(cs) |->
    IF cs[i].id = cellId THEN [cs[i] EXCEPT !.isCollapsed = TRUE] ELSE cs[i]]

toggleCellCollapse(cs, cellId) ==
  [i \in 1..Len(cs) |->
    IF cs[i].id = cellId THEN [cs[i] EXCEPT !.isCollapsed = ~cs[i].isCollapsed] ELSE cs[i]]

\* A start of executeCell that keeps the previous result on display.
setExecutingKeepsResult(cs, cellId) ==
  [i \in 1..Len(cs) |->
    IF cs[i].id = cellId THEN [cs[i] EXCEPT !.isExecuting = TRUE] ELSE cs[i]]

\* executeCell: "Update cell to show executing state"
setExecuting(cs, cellId) ==
  [i \in 1..Len(cs) |->
    IF cs[i].id = cellId THEN [cs[i] EXCEPT !.isExecuting = TRUE, !.result = Absent] ELSE cs[i]]

\* executeCell: "Update cell with result"
setResult(cs, cellId, result) ==
  [i \in 1..Len(cs) |->
    IF cs[i].id = cellId THEN [cs[i] EXCEPT !.result = <<result>>, !.isExecuting = FALSE] ELSE cs[i]]


\* A catch branch that attaches the error result and leaves isExecuting as it is.
setErrorResultOnly(cs, cellId, errorResult) ==
  [i \in 1..Len(cs) |->
    IF cs[i].id = cellId THEN [cs[i] EXCEPT !.result = <<errorResult>>] ELSE cs[i]]

\* executeCell, catch branch: the error result replaces the cell's result
setErrorResult(cs, cellId, errorResult) ==
  [i \in 1..Len(cs) |->
    IF cs[i].id = cellId THEN [cs[i] EXCEPT !.result = <<errorResult>>, !.isExecuting = FALSE] ELSE cs[i]]

\* ------------------------------------------------------------------ history, DDL, errors

Min(a, b) == IF a <= b THEN a ELSE b

\* Array.prototype.slice(0, n)
slice0(s, n) == IF n <= 0 THEN <<>> ELSE SubSeq(s, 1, Min(Len(s), n))

historyItem(query, t, result) ==
  [query |-> query, timestamp |-> t, success |-> result.success,
   affected_rows |-> result.affected_rows]


\* An append that cuts the old log one item too late.
pushHistoryOffByOne(prev, item) == <<item>> \o slice0(prev, MAX_HISTORY_ITEMS)

\* setHistory(prev => [historyItem, ...prev.slice(0, config.MAX_HISTORY_ITEMS - 1)])
pushHistory(prev, item) == <<item>> \o slice0(prev, MAX_HISTORY_ITEMS - 1)


\* A DDL test on the text as typed, without trim.
isDDLUntrimmed(query) ==
  \/ startsWith(toUpperCase(query), CREATE_TABLE)
  \/ startsWith(toUpperCase(query), DROP_TABLE)

\* "Refresh tables if DDL operation"
isDDL(query) ==
  \/ startsWith(toUpperCase(trim(query)), CREATE_TABLE)
  \/ startsWith(toUpperCase(trim(query)), DROP_TABLE)

\* What axios rejects with: error.response?.data?.error and error.message, "" when
\* the field is missing or empty.
TransportErrors ==
  { [responseError |-> "Internal Server Error", message |-> "Request failed with status code 500"],
    [responseError |-> "", message |-> "Network Error"],
    [responseError |-> "", message |-> ""] }

\* The rejection of a request that got no response.
NetworkErrors == {[responseError |-> "", message |-> "Network Error"]}

\* An error text that prefers the failure message to the response's error.
errorTextMessageFirst(err) ==
  IF err.message # "" THEN err.message
  ELSE IF err.responseError # "" THEN err.responseError
  ELSE "Unknown error"

\* error.response?.data?.error || error.message || 'Unknown error'
errorText(err) ==
  IF err.responseError # "" THEN err.responseError
  ELSE IF err.message # "" THEN err.message
  ELSE "Unknown error"

errorResult(err) ==
  [success |-> FALSE, result |-> NULL, error |-> errorText(err), affected_rows |-> NULL]

\* ------------------------------------------------------------------ remote engine

\* The engine holds at most the one table t, with at most the row 1.
FreshDb == [exists |-> FALSE, rows |-> 0]

INSERT_T == <<"I","N","S","E","R","T"," ","I","N","T","O"," ","T"," ">>
SELECT_T == <<"S","E","L","E","C","T"," ","*"," ","F","R","O","M"," ","T">>
CREATE_T == <<"C","R","E","A","T","E"," ","T","A","B","L","E"," ","T">>
DROP_T == <<"D","R","O","P"," ","T","A","B","L","E"," ","T">>

statement(query) ==
  LET u == toUpperCase(trim(query)) IN
    IF startsWith(u, CREATE_T) THEN "create"
    ELSE IF startsWith(u, DROP_T) THEN "drop"
    ELSE IF startsWith(u, INSERT_T) THEN "insert"
    ELSE IF startsWith(u, SELECT_T) THEN "select"
    ELSE "other"

okResult(rows, affected) ==
  [success |-> TRUE, result |-> rows, error |-> "", affected_rows |-> affected]

failResult(text) ==
  [success |-> FALSE, result |-> NULL, error |-> text, affected_rows |-> NULL]

\* The QueryResult the engine answers an execute request with.
engineResult(d, query) ==
  LET k == statement(query) IN
    IF k = "create" THEN
      IF d.exists THEN failResult("Table already exists") ELSE okResult(NULL, 0)
    ELSE IF k = "drop" THEN
      IF d.exists THEN okResult(NULL, 0) ELSE failResult("Table does not exist")
    ELSE IF k = "insert" THEN
      IF ~d.exists THEN failResult("Table does not exist")
      ELSE IF d.rows >= 1 THEN failResult("Duplicate primary key")
      ELSE okResult(NULL, 1)
    ELSE IF k = "select" THEN
      IF d.exists THEN okResult(d.rows, NULL) ELSE failResult("Table does not exist")
    ELSE failResult("Table does not exist")

\* The database after the engine has executed the statement.
engineApply(d, query) ==
  IF ~engineResult(d, query).success THEN d
  ELSE LET k == statement(query) IN
    IF k = "create" THEN [exists |-> TRUE, rows |-> 0]
    ELSE IF k = "drop" THEN FreshDb
    ELSE IF k = "insert" THEN [d EXCEPT !.rows = d.rows + 1]
    ELSE d

\* The table list of a tables response.
engineTables(d) == IF d.exists THEN <<[name |-> "t", row_count |-> d.rows]>> ELSE <<>>

\* The engine's history of the session after it has executed a statement of the
\* session at time t.  The list is kept up to the one history request of the page:
\* once that has been answered (or lost), nothing asks for the list again.
engineRecord(list, call, query, t, result) ==
  IF call.stage = "sent" THEN <<historyItem(query, t, result)>> \o list ELSE list

\* ------------------------------------------------------------------ requests

NoPayload == failResult("")

\* orphan is a history field: the cell of the request was deleted while the
\* request was in flight.
executeCall(n, cellId, query, caller) ==
  [n |-> n, cellId |-> cellId, query |-> query, caller |-> caller,
   stage |-> "sent", payload |-> NoPayload, orphan |-> FALSE]

\* The requests in flight once deleteCell(cellId) has acted on the store cs.
orphaned(calls, cs, cellId) ==
  IF Len(cs) <= 1 THEN calls
  ELSE {[c EXCEPT !.orphan = c.orphan \/ c.cellId = cellId] : c \in calls}

\* A loadTables invocation; origin records who called it ("mount", "click", "ddl").
tablesCall(origin) ==
  [origin |-> origin, stage |-> "sent", success |-> FALSE, tables |-> <<>>]

\* The loadHistory invocation: awaiting axios.get ("sent", then "replied" with the
\* list of the response), or over ("done").
historyCallSent == [stage |-> "sent", queries |-> <<>>]
historyCallDone == [stage |-> "done", queries |-> <<>>]
historyCallFailed == [stage |-> "failed", queries |-> <<>>]

\* A resetDatabase invocation awaiting axios.post.
resetCall(n) == [n |-> n, stage |-> "sent"]

\* cleared: the execute requests issued by the time the last successful reset
\* cleared the page, -1 while there was none.
NoneReset == [n |-> 0, how |-> "none", cleared |-> -1]

NoneArrived == [tables |-> <<>>, origin |-> "none", before |-> "none"]

NoRunAll == [pc |-> "idle", cells |-> <<>>, idx |-> 0]

NoneSettled == [n |-> 0, cellId |-> "", query |-> <<>>, how |-> "none", result |-> NoPayload,
                refresh |-> FALSE]

RemoveAt(s, i) == SubSeq(s, 1, i - 1) \o SubSeq(s, i + 1, Len(s))

\* The first index after i of a cell the for loop of executeAllCells executes, 0 if none.
nextNonEmpty(cs, i) ==
  IF \E j \in (i + 1)..Len(cs) : trim(cs[j].query) # <<>>
  THEN CHOOSE j \in (i + 1)..Len(cs) :
         trim(cs[j].query) # <<>> /\ \A m \in (i + 1)..(j - 1) : trim(cs[m].query) = <<>>
  ELSE 0

RECURSIVE remaining(_, _)
\* The number of cells the loop still has to execute after index i.
remaining(cs, i) ==
  IF nextNonEmpty(cs, i) = 0 THEN 0 ELSE 1 + remaining(cs, nextNonEmpty(cs, i))

\* A guard that tests the text as typed, without trim.
proceedsUntrimmed(cs, cellId) == find(cs, cellId) # 0 /\ cs[find(cs, cellId)].query # <<>>

\* executeCell's guard, on the cell list its closure holds:
\* if (!cell || !cell.query.trim()) return
proceeds(cs, cellId) == find(cs, cellId) # 0 /\ trim(cs[find(cs, cellId)].query) # <<>>

\* ------------------------------------------------------------------ initial state

\* The state after the first render and its mount effect: loadHistory and
\* loadTables are awaiting their responses.  The remote database is empty (it was reset before the page loaded).

InitView ==
  /\ cells = <<InitialCell>>
  /\ history = <<>>
  /\ isRunningAll = FALSE
  /\ tables = <<>>
  /\ isLoadingTables = TRUE
  /\ now = 2
  /\ issued = 0
  /\ executes = {}
  /\ runAll = NoRunAll
  /\ tableCalls = <<tablesCall("mount")>>
  /\ db = FreshDb
  /\ settled = NoneSettled
  /\ appended = <<>>
  /\ tablesFrom = "none"
  /\ serverHistory = <<>>
  /\ resetCalls = <<>>
  /\ resetIssued = 0
  /\ resetSettled = NoneReset
  /\ returned = ""
  /\ arrived = NoneArrived

Init == InitView /\ historyCall = historyCallSent

\* The same page once its history load is over.
InitLoaded == InitView /\ historyCall = historyCallDone

\* ------------------------------------------------------------------ cell store commands

storeOnly == <<history, isRunningAll, tables, isLoadingTables, now, issued,
               executes, runAll, tableCalls, db, settled, appended, tablesFrom,
               historyCall, serverHistory, resetCalls, resetIssued, resetSettled,
               returned, arrived>>

\* Date.now() moves on.
Tick ==
  /\ now < MaxClock
  /\ now' = now + 1
  /\ UNCHANGED <<cells, history, isRunningAll, tables, isLoadingTables, issued,
                 executes, runAll, tableCalls, db, settled, appended, tablesFrom, sessionVars>>

\* The "Add Cell" button.
AddCell ==
  /\ Len(cells) < MaxCells
  /\ cells' = addCell(cells, now)
  /\ UNCHANGED storeOnly

\* The delete button of the k-th cell.
DeleteCell(k) ==
  /\ k \in 1..Len(cells)
  /\ cells' = deleteCell(cells, cells[k].id)
  /\ executes' = orphaned(executes, cells, cells[k].id)
  /\ UNCHANGED <<history, isRunningAll, tables, isLoadingTables, now, issued, runAll,
                 tableCalls, db, settled, appended, tablesFrom, sessionVars>>

\* The editor of the k-th cell reports a change.
UpdateCellQuery(k, text) ==
  /\ k \in 1..Len(cells)
  /\ cells' = updateCellQuery(cells, cells[k].id, text)
  /\ UNCHANGED storeOnly

\* The collapse button of the k-th cell.
ToggleCellCollapse(k) ==
  /\ k \in 1..Len(cells)
  /\ cells' = toggleCellCollapse(cells, cells[k].id)
  /\ UNCHANGED storeOnly

\* ------------------------------------------------------------------ loadTables

\* loadTables up to its await: setIsLoadingTables(true), axios.get(.../tables)
loadTablesCalls(calls, origin) == Append(calls, tablesCall(origin))

\* The refresh button of the tables panel (disabled while isLoadingTables).
LoadTables ==
  /\ ~isLoadingTables
  /\ Len(tableCalls) < MaxTableCalls
  /\ isLoadingTables' = TRUE
  /\ tableCalls' = loadTablesCalls(tableCalls, "click")
  /\ UNCHANGED <<cells, history, isRunningAll, tables, now, issued, executes, runAll,
                 db, settled, appended, tablesFrom, sessionVars>>

\* The engine answers a tables request, with success false when it cannot list them.
EngineTables(i, ok) ==
  /\ i \in 1..Len(tableCalls)
  /\ tableCalls[i].stage = "sent"
  /\ tableCalls' = [tableCalls EXCEPT ![i] =
                      [origin |-> tableCalls[i].origin, stage |-> "replied", success |-> ok,
                       tables |-> IF ok THEN engineTables(db) ELSE <<>>]]
  /\ UNCHANGED <<cells, history, isRunningAll, tables, isLoadingTables, now, issued,
                 executes, runAll, db, settled, appended, tablesFrom, sessionVars>>


\* A loadTables that tests the flag the wrong way round.
tablesAfterNegated(current, data) == IF ~data.success THEN data.tables ELSE current

\* A loadTables that keeps a cache once it is filled: the first list wins.
tablesAfterFirstWins(current, data) ==
  IF data.success /\ current = <<>> THEN data.tables ELSE current

\* loadTables after its await resolved: if (data.success) setTables(data.tables);
\* finally setIsLoadingTables(false)
tablesAfter(current, data) == IF data.success THEN data.tables ELSE current

TablesResolved(i) ==
  /\ i \in 1..Len(tableCalls)
  /\ tableCalls[i].stage = "replied"
  /\ tables' = tablesAfter(tables, tableCalls[i])
  /\ isLoadingTables' = FALSE
  /\ tableCalls' = RemoveAt(tableCalls, i)
  /\ tablesFrom' = IF tableCalls[i].success THEN tableCalls[i].origin ELSE tablesFrom
  /\ arrived' = IF tableCalls[i].success
                THEN [tables |-> tableCalls[i].tables, origin |-> tableCalls[i].origin,
                      before |-> arrived.origin]
                ELSE arrived
  /\ UNCHANGED <<cells, history, isRunningAll, now, issued, executes, runAll, db, settled,
                 appended, historyCall, serverHistory, resetCalls, resetIssued,
                 resetSettled, returned>>

\* A loadTables that empties the cache when its request has failed.
TablesRejectedClears(i) ==
  /\ i \in 1..Len(tableCalls)
  /\ tables' = <<>>
  /\ isLoadingTables' = FALSE
  /\ tableCalls' = RemoveAt(tableCalls, i)
  /\ UNCHANGED <<cells, history, isRunningAll, now, issued, executes, runAll,
                 db, settled, appended, tablesFrom, sessionVars>>

\* loadTables after its await rejected (request or response lost): catch, finally
TablesRejected(i) ==
  /\ i \in 1..Len(tableCalls)
  /\ isLoadingTables' = FALSE
  /\ tableCalls' = RemoveAt(tableCalls, i)
  /\ UNCHANGED <<cells, history, isRunningAll, tables, now, issued, executes, runAll,
                 db, settled, appended, tablesFrom, sessionVars>>

\* ------------------------------------------------------------------ executeCell

\* The execute requests a running executeAllCells has yet to issue.
reserved == IF runAll.pc = "idle" THEN 0 ELSE remaining(runAll.cells, runAll.idx)

\* A Run button that is disabled while any execute request is in flight.
ExecuteCellSerialized(k) ==
  /\ k \in 1..Len(cells)
  /\ executes = {}
  /\ ~cells[k].isExecuting
  /\ trim(cells[k].query) # <<>>
  /\ issued + reserved < MaxExec
  /\ IF proceeds(cells, cells[k].id)
     THEN /\ cells' = setExecuting(cells, cells[k].id)
          /\ issued' = issued + 1
          /\ executes' = executes \cup
               {executeCall(issued + 1, cells[k].id,
                            cells[find(cells, cells[k].id)].query, "one")}
     ELSE UNCHANGED <<cells, issued, executes>>
  /\ UNCHANGED <<history, isRunningAll, tables, isLoadingTables, now, runAll,
                 tableCalls, db, settled, appended, tablesFrom, sessionVars>>

\* The Run button of the k-th cell (disabled while the cell is executing or its
\* query is blank): executeCell(cell.id) up to its await.
ExecuteCell(k) ==
  /\ k \in 1..Len(cells)
  /\ ~cells[k].isExecuting
  /\ trim(cells[k].query) # <<>>
  /\ issued + reserved < MaxExec
  /\ IF proceeds(cells, cells[k].id)
     THEN /\ cells' = setExecuting(cells, cells[k].id)
          /\ issued' = issued + 1
          /\ executes' = executes \cup
               {executeCall(issued + 1, cells[k].id,
                            cells[find(cells, cells[k].id)].query, "one")}
     ELSE UNCHANGED <<cells, issued, executes>>
  /\ UNCHANGED <<history, isRunningAll, tables, isLoadingTables, now, runAll,
                 tableCalls, db, settled, appended, tablesFrom, sessionVars>>

\* The engine executes the statement of a request and answers it.
EngineExecute(c) ==
  /\ c \in executes
  /\ c.stage = "sent"
  /\ db' = engineApply(db, c.query)
  /\ executes' = (executes \ {c}) \cup
       {[c EXCEPT !.stage = "replied", !.payload = engineResult(db, c.query)]}
  /\ serverHistory' = engineRecord(serverHistory, historyCall, c.query, now,
                                   engineResult(db, c.query))
  /\ UNCHANGED <<cells, history, isRunningAll, tables, isLoadingTables, now, issued,
                 runAll, tableCalls, settled, appended, tablesFrom, arrived,
                 historyCall, resetCalls, resetIssued, resetSettled, returned>>


\* An executeCell whose catch branch throws again: the executeAllCells that awaits
\* it ends there, without reaching setIsRunningAll(false).
afterExecuteRethrow(c, ra, how) ==
  IF c.caller = "all"
  THEN IF how = "rejected" THEN [pc |-> "idle", cells |-> <<>>, idx |-> 0]
       ELSE [ra EXCEPT !.pc = "pause"]
  ELSE ra

\* executeCell returns normally from its try and from its catch branch (how is
\* "resolved" or "rejected"): an executeAllCells that awaits it resumes, and then
\* waits for its 100 ms timer.
afterExecute(c, ra, how) == IF c.caller = "all" THEN [ra EXCEPT !.pc = "pause"] ELSE ra

\* result.success && (query starts with CREATE TABLE or DROP TABLE)
refreshes(c, result) == result.success /\ isDDL(c.query)

\* executeCell after axios.post resolved: the result, the history item, the refresh.
ExecuteResolved(c) ==
  /\ c \in executes
  /\ c.stage = "replied"
  /\ cells' = setResult(cells, c.cellId, c.payload)
  /\ history' = pushHistory(history, historyItem(c.query, now, c.payload))
  /\ appended' = <<historyItem(c.query, now, c.payload)>> \o appended
  /\ IF refreshes(c, c.payload)
     THEN /\ isLoadingTables' = TRUE
          /\ tableCalls' = loadTablesCalls(tableCalls, "ddl")
     ELSE UNCHANGED <<isLoadingTables, tableCalls>>
  /\ executes' = executes \ {c}
  /\ runAll' = afterExecute(c, runAll, "resolved")
  /\ settled' = [n |-> c.n, cellId |-> c.cellId, query |-> c.query, how |-> "resolved",
                 result |-> c.payload, refresh |-> tableCalls' # tableCalls]
  /\ UNCHANGED <<isRunningAll, tables, now, issued, db, tablesFrom, sessionVars>>

\* executeCell after axios.post rejected (the request never arrived, or the
\* response was lost or carried an error status): the catch branch.
ExecuteRejected(c, err) ==
  /\ c \in executes
  /\ cells' = setErrorResult(cells, c.cellId, errorResult(err))
  /\ executes' = executes \ {c}
  /\ runAll' = afterExecute(c, runAll, "rejected")
  /\ settled' = [n |-> c.n, cellId |-> c.cellId, query |-> c.query, how |-> "rejected",
                 result |-> errorResult(err), refresh |-> FALSE]
  /\ UNCHANGED <<history, isRunningAll, tables, isLoadingTables, now, issued,
                 tableCalls, db, appended, tablesFrom, sessionVars>>

\* ------------------------------------------------------------------ executeAllCells

\* The for loop of executeAllCells from position i of the cell list cs of its
\* closure, up to its next await or its end.  executeCell is the one of the same
\* render: it looks the cell up in cs.
loop(cs, i) ==
  LET j == nextNonEmpty(cs, i) IN
    IF j = 0
    THEN /\ isRunningAll' = FALSE
         /\ runAll' = NoRunAll
         /\ UNCHANGED <<cells, issued, executes>>
    ELSE /\ isRunningAll' = TRUE
         /\ IF proceeds(cs, cs[j].id)
            THEN /\ cells' = setExecuting(cells, cs[j].id)
                 /\ issued' = issued + 1
                 /\ executes' = executes \cup
                      {executeCall(issued + 1, cs[j].id, cs[find(cs, cs[j].id)].query, "all")}
                 /\ runAll' = [pc |-> "await", cells |-> cs, idx |-> j]
            ELSE /\ runAll' = [pc |-> "pause", cells |-> cs, idx |-> j]
                 /\ UNCHANGED <<cells, issued, executes>>

\* A "Run All Cells" button that is never disabled.
ExecuteAllCellsReentrant ==
  /\ issued + reserved + remaining(cells, 0) <= MaxExec
  /\ loop(cells, 0)
  /\ UNCHANGED <<history, tables, isLoadingTables, now, tableCalls, db, settled,
                 appended, tablesFrom, sessionVars>>

\* The "Run All Cells" button (disabled while isRunningAll).
ExecuteAllCells ==
  /\ ~isRunningAll
  /\ issued + remaining(cells, 0) <= MaxExec
  /\ loop(cells, 0)
  /\ UNCHANGED <<history, tables, isLoadingTables, now, tableCalls, db, settled,
                 appended, tablesFrom, sessionVars>>

\* An executeAllCells that does not await executeCell: its loop goes on when the
\* timer fires, whether the cell's request has completed or not.
RunAllResumeNoAwait ==
  /\ runAll.pc \in {"pause", "await"}
  /\ loop(runAll.cells, runAll.idx)
  /\ UNCHANGED <<history, tables, isLoadingTables, now, tableCalls, db, settled,
                 appended, tablesFrom, sessionVars>>

\* An executeAllCells whose loop goes on over the cells of the latest render.
RunAllResumeLive ==
  /\ runAll.pc = "pause"
  /\ loop(cells, runAll.idx)
  /\ UNCHANGED <<history, tables, isLoadingTables, now, tableCalls, db, settled,
                 appended, tablesFrom, sessionVars>>

\* The 100 ms timer of executeAllCells fires.
RunAllResume ==
  /\ runAll.pc = "pause"
  /\ loop(runAll.cells, runAll.idx)
  /\ UNCHANGED <<history, tables, isLoadingTables, now, tableCalls, db, settled,
                 appended, tablesFrom, sessionVars>>

\* ------------------------------------------------------------------ executeCell, invoked directly

\* executeCell(cell.id) invoked for the k-th cell while its query is blank (its Run
\* button shows disabled then; the command is invoked all the same): the guard of
\* executeCell decides.
ExecuteCellBlank(k) ==
  /\ k \in 1..Len(cells)
  /\ trim(cells[k].query) = <<>>
  /\ issued + reserved < MaxExec
  /\ returned' = cells[k].id
  /\ IF proceeds(cells, cells[k].id)
     THEN /\ cells' = setExecuting(cells, cells[k].id)
          /\ issued' = issued + 1
          /\ executes' = executes \cup
               {executeCall(issued + 1, cells[k].id,
                            cells[find(cells, cells[k].id)].query, "one")}
     ELSE UNCHANGED <<cells, issued, executes>>
  /\ UNCHANGED <<history, isRunningAll, tables, isLoadingTables, now, runAll,
                 tableCalls, db, settled, appended, tablesFrom, arrived,
                 historyCall, serverHistory, resetCalls, resetIssued, resetSettled>>

\* ------------------------------------------------------------------ loadHistory

\* The engine answers the history request with its list for the session.
EngineHistory ==
  /\ historyCall.stage = "sent"
  /\ historyCall' = [stage |-> "replied", queries |-> serverHistory]
  /\ UNCHANGED <<cells, history, isRunningAll, tables, isLoadingTables, now, issued,
                 executes, runAll, tableCalls, db, settled, appended, tablesFrom, arrived,
                 serverHistory, resetCalls, resetIssued, resetSettled, returned>>

\* loadHistory after its await resolved: setHistory(data.queries || [])
historyAfter(current, queries) == queries

HistoryResolved ==
  /\ historyCall.stage = "replied"
  /\ history' = historyAfter(history, historyCall.queries)
  /\ historyCall' = historyCallDone
  /\ UNCHANGED <<cells, isRunningAll, tables, isLoadingTables, now, issued,
                 executes, runAll, tableCalls, db, settled, appended, tablesFrom, arrived,
                 serverHistory, resetCalls, resetIssued, resetSettled, returned>>

\* loadHistory after its await rejected (request or response lost): the catch branch
HistoryRejected ==
  /\ historyCall.stage \in {"sent", "replied"}
  /\ historyCall' = historyCallFailed
  /\ UNCHANGED <<cells, history, isRunningAll, tables, isLoadingTables, now, issued,
                 executes, runAll, tableCalls, db, settled, appended, tablesFrom, arrived,
                 serverHistory, resetCalls, resetIssued, resetSettled, returned>>

\* ------------------------------------------------------------------ resetDatabase

\* Reset requests issued in one behaviour.
MaxResets == MaxTableCalls - 1

\* The "Reset DB" button: resetDatabase up to its await.
ResetDatabase ==
  /\ resetIssued < MaxResets
  /\ resetIssued' = resetIssued + 1
  /\ resetCalls' = Append(resetCalls, resetCall(resetIssued + 1))
  /\ UNCHANGED <<cells, history, isRunningAll, tables, isLoadingTables, now, issued,
                 executes, runAll, tableCalls, db, settled, appended, tablesFrom, arrived,
                 historyCall, serverHistory, resetSettled, returned>>

\* The engine empties its database and answers the reset request.
EngineReset(i) ==
  /\ i \in 1..Len(resetCalls)
  /\ resetCalls[i].stage = "sent"
  /\ db' = FreshDb
  /\ resetCalls' = [resetCalls EXCEPT ![i] = [n |-> resetCalls[i].n, stage |-> "replied"]]
  /\ UNCHANGED <<cells, history, isRunningAll, tables, isLoadingTables, now, issued,
                 executes, runAll, tableCalls, settled, appended, tablesFrom, arrived,
                 historyCall, serverHistory, resetIssued, resetSettled, returned>>

\* A reset that empties the cells' queries along with their results.
clearResultsAndQueries(cs) ==
  [i \in 1..Len(cs) |-> [cs[i] EXCEPT !.result = Absent, !.query = <<>>]]

\* setCells(prev => prev.map(c => ({ ...c, result: null })))
clearResults(cs) == [i \in 1..Len(cs) |-> [cs[i] EXCEPT !.result = Absent]]

\* resetDatabase after axios.post resolved: results and history cleared, tables reloaded.
ResetResolved(i) ==
  /\ i \in 1..Len(resetCalls)
  /\ resetCalls[i].stage = "replied"
  /\ cells' = clearResults(cells)
  /\ history' = <<>>
  /\ appended' = <<>>
  /\ isLoadingTables' = TRUE
  /\ tableCalls' = loadTablesCalls(tableCalls, "reset")
  /\ resetCalls' = RemoveAt(resetCalls, i)
  /\ resetSettled' = [n |-> resetCalls[i].n, how |-> "resolved", cleared |-> issued]
  /\ UNCHANGED <<isRunningAll, tables, now, issued, executes, runAll, db, settled,
                 tablesFrom, arrived, historyCall, serverHistory, resetIssued, returned>>

\* A resetDatabase that clears the local state when its request has failed, too.
ResetRejectedClears(i) ==
  /\ i \in 1..Len(resetCalls)
  /\ cells' = clearResults(cells)
  /\ history' = <<>>
  /\ appended' = <<>>
  /\ resetCalls' = RemoveAt(resetCalls, i)
  /\ resetSettled' = [n |-> resetCalls[i].n, how |-> "rejected",
                      cleared |-> resetSettled.cleared]
  /\ UNCHANGED <<isRunningAll, tables, isLoadingTables, now, issued,
                 executes, runAll, tableCalls, db, settled, tablesFrom, arrived,
                 historyCall, serverHistory, resetIssued, returned>>

\* resetDatabase after axios.post rejected (the request never arrived, or the
\* response was lost or carried an error status): the catch branch only logs.
ResetRejected(i) ==
  /\ i \in 1..Len(resetCalls)
  /\ resetCalls' = RemoveAt(resetCalls, i)
  /\ resetSettled' = [n |-> resetCalls[i].n, how |-> "rejected",
                      cleared |-> resetSettled.cleared]
  /\ UNCHANGED <<cells, history, isRunningAll, tables, isLoadingTables, now, issued,
                 executes, runAll, tableCalls, db, settled, appended, tablesFrom, arrived,
                 historyCall, serverHistory, resetIssued, returned>>

\* ------------------------------------------------------------------ specification

Next ==
  \/ Tick
  \/ AddCell
  \/ \E k \in 1..MaxCells : DeleteCell(k)
  \/ \E k \in 1..MaxCells, text \in Texts : UpdateCellQuery(k, text)
  \/ \E k \in 1..MaxCells : ToggleCellCollapse(k)
  \/ LoadTables
  \/ \E i \in 1..Len(tableCalls), ok \in BOOLEAN : EngineTables(i, ok)
  \/ \E i \in 1..Len(tableCalls) : TablesResolved(i)
  \/ \E i \in 1..Len(tableCalls) : TablesRejected(i)
  \/ \E k \in 1..MaxCells : ExecuteCell(k)
  \/ \E c \in executes : EngineExecute(c)
  \/ \E c \in executes : ExecuteResolved(c)
  \/ \E c \in executes, err \in TransportErrors : ExecuteRejected(c, err)
  \/ ExecuteAllCells
  \/ RunAllResume
  \/ \E k \in 1..MaxCells : ExecuteCellBlank(k)
  \/ EngineHistory
  \/ HistoryResolved
  \/ HistoryRejected
  \/ ResetDatabase
  \/ \E i \in 1..Len(resetCalls) : EngineReset(i)
  \/ \E i \in 1..Len(resetCalls) : ResetResolved(i)
  \/ \E i \in 1..Len(resetCalls) : ResetRejected(i)

Spec == Init /\ [][Next]_vars


\* The cell store alone: the commands that add, delete and edit cells.
NextStore ==
  \/ Tick
  \/ AddCell
  \/ \E k \in 1..MaxCells : DeleteCell(k)
  \/ \E k \in 1..MaxCells, text \in Texts : UpdateCellQuery(k, text)
  \/ \E k \in 1..MaxCells : ToggleCellCollapse(k)

SpecStore == Init /\ [][NextStore]_vars


\* Single-cell execution: the first cell is edited and run again and again, while
\* the engine answers and execute requests and responses get lost.  The tables
\* requests are all answered, and the history load is over.
RunTexts == {QBlank, QCreateLower, QSelect, QDrop}

NextRunOne ==
  \/ \E k \in 1..MaxCells, text \in RunTexts : UpdateCellQuery(k, text)
  \/ \E i \in 1..Len(tableCalls) : EngineTables(i, TRUE)
  \/ \E i \in 1..Len(tableCalls) : TablesResolved(i)
  \/ \E k \in 1..MaxCells : ExecuteCell(k)
  \/ \E c \in executes : EngineExecute(c)
  \/ \E c \in executes : ExecuteResolved(c)
  \/ \E c \in executes, err \in TransportErrors : ExecuteRejected(c, err)

SpecRunOne == InitLoaded /\ [][NextRunOne]_vars

\* Run-all over a notebook of three cells, with no other command interleaved.
\* The notebook was typed in before: two cells added at clock values 2 and 3.
ScenarioTexts == {QCreate, QInsert, QSelect, QBlank}

scenarioCell(id, query) ==
  [id |-> id, query |-> query, result |-> Absent, isExecuting |-> FALSE,
   isCollapsed |-> FALSE]

InitRunAll ==
  /\ \E q1 \in ScenarioTexts, q2 \in ScenarioTexts, q3 \in ScenarioTexts :
       cells = <<scenarioCell("cell-1", q1), scenarioCell(CellId(2), q2),
                 scenarioCell(CellId(3), q3)>>
  /\ history = <<>>
  /\ isRunningAll = FALSE
  /\ tables = <<>>
  /\ isLoadingTables = TRUE
  /\ now = 3
  /\ issued = 0
  /\ executes = {}
  /\ runAll = NoRunAll
  /\ tableCalls = <<tablesCall("mount")>>
  /\ db = FreshDb
  /\ settled = NoneSettled
  /\ appended = <<>>
  /\ tablesFrom = "none"
  /\ historyCall = historyCallDone
  /\ serverHistory = <<>>
  /\ resetCalls = <<>>
  /\ resetIssued = 0
  /\ resetSettled = NoneReset
  /\ returned = ""
  /\ arrived = NoneArrived

NextRunAll ==
  \/ ExecuteAllCells
  \/ RunAllResume
  \/ \E c \in executes : EngineExecute(c)
  \/ \E c \in executes : ExecuteResolved(c)
  \/ \E c \in executes, err \in TransportErrors : ExecuteRejected(c, err)
  \/ \E i \in 1..Len(tableCalls), ok \in BOOLEAN : EngineTables(i, ok)
  \/ \E i \in 1..Len(tableCalls) : TablesResolved(i)
  \/ \E i \in 1..Len(tableCalls) : TablesRejected(i)

SpecRunAll == InitRunAll /\ [][NextRunAll]_vars

\* The commands on one cell: editing, collapsing and running it, also while its
\* query is blank.  The history load is over; the tables requests are all answered.
CommandTexts == {QBlank, QCreate}

NextCommands ==
  \/ \E k \in 1..MaxCells, text \in CommandTexts : UpdateCellQuery(k, text)
  \/ \E k \in 1..MaxCells : ToggleCellCollapse(k)
  \/ \E k \in 1..MaxCells : ExecuteCell(k)
  \/ \E k \in 1..MaxCells : ExecuteCellBlank(k)
  \/ \E c \in executes : EngineExecute(c)
  \/ \E c \in executes : ExecuteResolved(c)
  \/ \E c \in executes, err \in TransportErrors : ExecuteRejected(c, err)
  \/ \E i \in 1..Len(tableCalls) : EngineTables(i, TRUE)
  \/ \E i \in 1..Len(tableCalls) : TablesResolved(i)

SpecCommands == InitLoaded /\ [][NextCommands]_vars

\* The Run button of a cell and the Run All button, pressed in any order.
NextRunMixed ==
  \/ \E k \in 1..MaxCells : ExecuteCell(k)
  \/ ExecuteAllCells
  \/ RunAllResume
  \/ \E c \in executes : EngineExecute(c)
  \/ \E c \in executes : ExecuteResolved(c)
  \/ \E c \in executes, err \in TransportErrors : ExecuteRejected(c, err)
  \/ \E i \in 1..Len(tableCalls) : EngineTables(i, TRUE)
  \/ \E i \in 1..Len(tableCalls) : TablesResolved(i)

SpecRunMixed == InitLoaded /\ [][NextRunMixed]_vars

\* The same, when every execute request in flight is eventually settled: axios.post
\* resolves or rejects, and the continuation of executeCell runs.
Settle ==
  \E c \in executes, err \in TransportErrors : ExecuteResolved(c) \/ ExecuteRejected(c, err)

SpecSettling == SpecRunMixed /\ WF_vars(Settle)

\* Resets among single-cell runs (one run more than resets), in any order of
\* completion.  The history load is over; the tables requests are all answered,
\* and an execute request may be lost.
ResetTexts == {QCreate}

NextReset ==
  \/ \E k \in 1..MaxCells, text \in ResetTexts : UpdateCellQuery(k, text)
  \/ \E k \in 1..MaxCells : issued <= MaxResets /\ ExecuteCell(k)
  \/ \E c \in executes : EngineExecute(c)
  \/ \E c \in executes : ExecuteResolved(c)
  \/ \E c \in executes, err \in NetworkErrors : ExecuteRejected(c, err)
  \/ ResetDatabase
  \/ \E i \in 1..Len(resetCalls) : EngineReset(i)
  \/ \E i \in 1..Len(resetCalls) : ResetResolved(i)
  \/ \E i \in 1..Len(resetCalls) : ResetRejected(i)
  \/ \E i \in 1..Len(tableCalls) : EngineTables(i, TRUE)
  \/ \E i \in 1..Len(tableCalls) : TablesResolved(i)

SpecReset == InitLoaded /\ [][NextReset]_vars

\* The history load of the mount effect among single-cell runs, in any order of
\* completion.  The tables requests are all answered.
NextLoad ==
  \/ \E k \in 1..MaxCells, text \in ResetTexts : UpdateCellQuery(k, text)
  \/ \E k \in 1..MaxCells : ExecuteCell(k)
  \/ \E c \in executes : EngineExecute(c)
  \/ \E c \in executes : ExecuteResolved(c)
  \/ \E c \in executes, err \in TransportErrors : ExecuteRejected(c, err)
  \/ EngineHistory
  \/ HistoryResolved
  \/ HistoryRejected
  \/ \E i \in 1..Len(tableCalls) : EngineTables(i, TRUE)
  \/ \E i \in 1..Len(tableCalls) : TablesResolved(i)

SpecLoad == Init /\ [][NextLoad]_vars

\* The schema cache and the history load: tables requests of the mount effect, of
\* the refresh button and of CREATE TABLE and DROP TABLE statements, answered with
\* or without success, lost, and received in any order, next to the history load.
\* The execute requests are all answered.
TablesTexts == {QCreate, QDrop}

\* Runs of the cell in one behaviour of this specification.
MaxRuns == MaxTableCalls - 1

NextTables ==
  \/ \E k \in 1..MaxCells, text \in TablesTexts : UpdateCellQuery(k, text)
  \/ \E k \in 1..MaxCells : issued < MaxRuns /\ ExecuteCell(k)
  \/ \E c \in executes : EngineExecute(c)
  \/ \E c \in executes : ExecuteResolved(c)
  \/ LoadTables
  \/ \E i \in 1..Len(tableCalls), ok \in BOOLEAN : EngineTables(i, ok)
  \/ \E i \in 1..Len(tableCalls) : TablesResolved(i)
  \/ \E i \in 1..Len(tableCalls) : TablesRejected(i)
  \/ EngineHistory
  \/ HistoryResolved
  \/ HistoryRejected

SpecTables == Init /\ [][NextTables]_vars

\* The notebook around the first run of a page: cells are added and deleted, the
\* first cell is edited and collapsed, one cell is run, and the history load,
\* resets and schema refreshes go on meanwhile.  The tables requests are all
\* answered; the execute request may be lost.
NotebookTexts == {QSelect}

NextNotebook ==
  \/ Len(cells) < MaxCells - 1 /\ AddCell
  \/ \E k \in 1..MaxCells : DeleteCell(k)
  \/ \E text \in NotebookTexts : UpdateCellQuery(1, text)
  \/ ToggleCellCollapse(1)
  \/ \E k \in 1..MaxCells : issued = 0 /\ ExecuteCell(k)
  \/ \E c \in executes : EngineExecute(c)
  \/ \E c \in executes : ExecuteResolved(c)
  \/ \E c \in executes, err \in NetworkErrors : ExecuteRejected(c, err)
  \/ ResetDatabase
  \/ \E i \in 1..Len(resetCalls) : EngineReset(i)
  \/ \E i \in 1..Len(resetCalls) : ResetResolved(i)
  \/ EngineHistory
  \/ HistoryResolved
  \/ \E i \in 1..Len(tableCalls) : EngineTables(i, TRUE)
  \/ \E i \in 1..Len(tableCalls) : TablesResolved(i)

SpecNotebook == Init /\ [][NextNotebook]_vars

\* Two cells run with their Run buttons, in any order and any number at a time.
\* The notebook was typed in before: the second cell was added at clock value 2.
\* The history load is over; the tables requests are all answered, and an
\* execute request may be lost.
TwoCellsTexts == {QCreate, QSelect}

InitTwoCells ==
  /\ \E q1 \in TwoCellsTexts, q2 \in TwoCellsTexts :
       cells = <<scenarioCell("cell-1", q1), scenarioCell(CellId(2), q2)>>
  /\ history = <<>>
  /\ isRunningAll = FALSE
  /\ tables = <<>>
  /\ isLoadingTables = TRUE
  /\ now = 2
  /\ issued = 0
  /\ executes = {}
  /\ runAll = NoRunAll
  /\ tableCalls = <<tablesCall("mount")>>
  /\ db = FreshDb
  /\ settled = NoneSettled
  /\ appended = <<>>
  /\ tablesFrom = "none"
  /\ historyCall = historyCallDone
  /\ serverHistory = <<>>
  /\ resetCalls = <<>>
  /\ resetIssued = 0
  /\ resetSettled = NoneReset
  /\ returned = ""
  /\ arrived = NoneArrived

NextTwoCells ==
  \/ \E k \in 1..MaxCells : ExecuteCell(k)
  \/ \E c \in executes : EngineExecute(c)
  \/ \E c \in executes : ExecuteResolved(c)
  \/ \E c \in executes, err \in NetworkErrors : ExecuteRejected(c, err)
  \/ \E i \in 1..Len(tableCalls) : EngineTables(i, TRUE)
  \/ \E i \in 1..Len(tableCalls) : TablesResolved(i)

SpecTwoCells == InitTwoCells /\ [][NextTwoCells]_vars

\* Run-all over the two cells while they are blanked and deleted and execute
\* requests get lost.
EditTexts == {QBlank}

NextRunAllEdits ==
  \/ \E k \in 1..MaxCells : DeleteCell(k)
  \/ \E k \in 1..MaxCells, text \in EditTexts : UpdateCellQuery(k, text)
  \/ issued < MaxRuns /\ ExecuteAllCells
  \/ RunAllResume
  \/ \E c \in executes : EngineExecute(c)
  \/ \E c \in executes : ExecuteResolved(c)
  \/ \E c \in executes, err \in NetworkErrors : ExecuteRejected(c, err)
  \/ \E i \in 1..Len(tableCalls) : EngineTables(i, TRUE)
  \/ \E i \in 1..Len(tableCalls) : TablesResolved(i)

SpecRunAllEdits == InitTwoCells /\ [][NextRunAllEdits]_vars

\* The same, when every execute request in flight is eventually settled and the
\* 100 ms timer of executeAllCells eventually fires.
SpecRunAllSettling == SpecRunAllEdits /\ WF_vars(Settle) /\ WF_vars(RunAllResume)

\* The first run-all of a page, over the two cells, while cells are added, edited
\* and deleted.  The execute requests are all answered; the tables requests stay
\* outstanding.
RunStoreTexts == {QBlank, QSelect}

NextRunAllStore ==
  \/ Tick
  \/ Len(cells) < MaxCells - 1 /\ AddCell
  \/ \E k \in 1..MaxCells : DeleteCell(k)
  \/ \E k \in 1..MaxCells, text \in RunStoreTexts : UpdateCellQuery(k, text)
  \/ issued = 0 /\ ExecuteAllCells
  \/ RunAllResume
  \/ \E c \in executes : EngineExecute(c)
  \/ \E c \in executes : ExecuteResolved(c)

SpecRunAllStore == InitTwoCells /\ [][NextRunAllStore]_vars

\* ------------------------------------------------------------------ claims

\* C1: in every reachable state, after any sequence of add and delete commands,
\* the cell store holds at least one cell.
C1_StoreNeverEmpty == Len(cells) >= 1

\* C2: in every reachable state no two cells of the store have the same id.
C2_UniqueIds ==
  \A i \in 1..Len(cells), j \in 1..Len(cells) : i # j => cells[i].id # cells[j].id

\* The statements of the model that begin, once trimmed and in upper case, with
\* CREATE TABLE or DROP TABLE.
SchemaMutating == {QCreate, QCreateLower, QDrop}

\* An executeCell invocation completes in this step.
Settles == settled'.n # settled.n

\* The cells the store holds under the id of the invocation that completed last.
SettledCells(cs) == {i \in 1..Len(cs) : cs[i].id = settled.cellId}

\* C4: when a runOne settles (success payload, failure payload or transport
\* failure), the targeted cell's isExecuting is false.
C4_NotExecutingAfterSettle ==
  [][Settles => \A i \in 1..Len(cells') :
                  cells'[i].id = settled'.cellId => ~cells'[i].isExecuting]_vars

\* C4 happens: a run that failed at the transport level has left its cell, still
\* in the store, with the error result and not executing.
C4_Witness ==
  /\ settled.how = "rejected"
  /\ \E i \in SettledCells(cells) :
       ~cells[i].isExecuting /\ cells[i].result = <<settled.result>>

\* C7: when a runOne completes, a history entry for it is put at the front of the
\* log, whether it succeeded, failed in the engine or failed at the transport level.
C7_HistoryOnEveryCompletion ==
  [][Settles =>
       /\ Len(history') >= 1
       /\ history'[1].query = settled'.query
       /\ history'[1].success = settled'.result.success
       /\ \A i \in 2..Len(history') : history'[i] = history[i - 1]]_vars

\* C8: a completed runOne dispatches a schema refresh if and only if its result has
\* success = true and its statement is a CREATE TABLE or DROP TABLE, whatever the
\* case and the leading white space of the text.
C8_RefreshIffSuccessfulDDL ==
  [][Settles =>
       IF settled'.how = "resolved" /\ settled'.result.success
          /\ settled'.query \in SchemaMutating
       THEN /\ tableCalls' = Append(tableCalls, tablesCall("ddl"))
            /\ isLoadingTables'
       ELSE UNCHANGED <<tableCalls, isLoadingTables>>]_vars

\* C8 happens: the successful "  create table t (...);" has dispatched a refresh.
C8_Witness ==
  /\ settled.query = QCreateLower
  /\ settled.result.success
  /\ settled.refresh
  /\ \E i \in 1..Len(tableCalls) : tableCalls[i].origin = "ddl"

\* C6: once more than MAX_HISTORY_ITEMS items have been appended, the log holds
\* exactly MAX_HISTORY_ITEMS items: the most recently appended ones, newest first.
C6_BoundedHistory ==
  Len(appended) > MAX_HISTORY_ITEMS =>
    /\ Len(history) = MAX_HISTORY_ITEMS
    /\ history = SubSeq(appended, 1, MAX_HISTORY_ITEMS)

\* C6 happens: one item more than the cap has been appended, and the two newest differ.
C6_Witness ==
  /\ Len(appended) = MAX_HISTORY_ITEMS + 1
  /\ Len(history) = MAX_HISTORY_ITEMS
  /\ history[1] # history[2]
  /\ history[1] = appended[1]

\* The execute requests of executeAllCells that are in flight.
RunAllInFlight == {c \in executes : c.caller = "all"}

\* C3: run-all issues the execute request of its next cell only when the previous
\* request has completed and its cell has been given the result (with, for a
\* response, the history item at the front of the log and the refresh of a
\* successful DDL dispatched); two of its requests are never in flight together.
C3_RunAllSequential ==
  [][/\ Cardinality(RunAllInFlight') <= 1
     /\ (issued' = issued + 1 /\ issued >= 1) =>
          /\ executes = {}
          /\ settled.n = issued
          /\ \A i \in SettledCells(cells) :
               ~cells[i].isExecuting /\ cells[i].result = <<settled.result>>
          /\ settled.how = "resolved" =>
               /\ Len(history) >= 1
               /\ history[1].query = settled.query
               /\ history[1].success = settled.result.success
               /\ (settled.result.success /\ settled.query \in SchemaMutating)
                    => settled.refresh]_vars

\* C3 happens: the second request of a run-all is in flight after the first cell's
\* CREATE TABLE succeeded and dispatched its refresh.
C3_Witness ==
  /\ issued = 2
  /\ \E c \in RunAllInFlight : c.n = 2
  /\ settled.n = 1 /\ settled.how = "resolved" /\ settled.refresh
  /\ cells[1].result = <<settled.result>>

\* C5: a run-all in which a cell has failed has stopped only at its end: every
\* later cell with a non-blank query has been executed and the flag is cleared.
C5_FailSoft ==
  \A i \in 1..Len(cells), j \in 1..Len(cells) :
    ( /\ i < j
      /\ runAll.pc = "idle"
      /\ cells[i].result # Absent
      /\ ~cells[i].result[1].success
      /\ trim(cells[j].query) # <<>> )
    => (cells[j].result # Absent /\ ~isRunningAll)

\* C5 happens: the run is over, its first cell failed at the transport level, its
\* second in the engine, and the third was executed.
C5_Witness ==
  /\ runAll.pc = "idle" /\ ~isRunningAll /\ issued = 3
  /\ cells[1].result # Absent /\ cells[1].result[1].error = "Network Error"
  /\ cells[2].result # Absent /\ cells[2].result[1].error = "Table does not exist"
  /\ cells[3].result # Absent

\* The notebook CREATE TABLE t, INSERT INTO t VALUES(1), SELECT * FROM t was run
\* by run-all, which has ended with every statement succeeding.
ScenarioDone ==
  /\ cells[1].query = QCreate /\ cells[2].query = QInsert /\ cells[3].query = QSelect
  /\ runAll.pc = "idle" /\ ~isRunningAll
  /\ \A i \in 1..3 : cells[i].result # Absent /\ cells[i].result[1].success

\* C9 as claimed: after that run, once no tables response is outstanding, the schema
\* cache (here: one set by the refresh of the CREATE TABLE) lists t with rowCount = 1.
C9_CacheHasOneRow ==
  (ScenarioDone /\ tableCalls = <<>> /\ tablesFrom = "ddl") =>
    tables = <<[name |-> "t", row_count |-> 1]>>

\* C9 as amended: after that run, once no tables response is outstanding, a schema
\* cache set by the refresh of the CREATE TABLE holds table t with rowCount 0 or 1,
\* and a cache set by another response holds t with these counts or no table.
C9_CacheAfterScenario ==
  (ScenarioDone /\ tableCalls = <<>>) =>
    /\ tablesFrom = "ddl" =>
         tables \in {<<[name |-> "t", row_count |-> 0]>>, <<[name |-> "t", row_count |-> 1]>>}
    /\ tables \in {<<>>, <<[name |-> "t", row_count |-> 0]>>,
                   <<[name |-> "t", row_count |-> 1]>>}

\* C9 happens: the cache was set by the refresh of the CREATE TABLE, which the
\* engine answered before the INSERT: it shows t with no row.
C9_Witness ==
  /\ ScenarioDone /\ tableCalls = <<>>
  /\ tablesFrom = "ddl"
  /\ tables = <<[name |-> "t", row_count |-> 0]>>

C11_OneRequestPerCell ==
  \A c \in executes, e \in executes : c.cellId = e.cellId => c = e

\* C12: executeCell on a cell whose query is empty or only white space issues no
\* execute request, changes no cell and appends nothing to the history log; no
\* request in flight carries a blank query.
C12_BlankRunIsNoOp ==
  [][/\ returned' # returned => UNCHANGED <<cells, history, appended, issued, executes>>
     /\ \A c \in executes' : trim(c.query) # <<>>]_vars

\* C12 happens: executeCell was invoked on the cell, which holds the result of an
\* earlier run and now a blank query.
C12_Witness ==
  /\ returned = "cell-1"
  /\ trim(cells[1].query) = <<>>
  /\ cells[1].result # Absent /\ ~cells[1].isExecuting
  /\ history # <<>>

\* A resetDatabase invocation completes in this step.
ResetSettles == resetSettled'.n # resetSettled.n

C14_FailedResetKeepsState ==
  [][(ResetSettles /\ resetSettled'.how = "rejected") =>
       UNCHANGED <<cells, history, tables, tableCalls, isLoadingTables>>]_vars

\* C14 happens: the response of a reset that the engine carried out was lost; the
\* page still shows the result, the log entry and table t.
C14_Witness ==
  /\ resetSettled.how = "rejected"
  /\ db = FreshDb
  /\ cells[1].result # Absent /\ cells[1].result[1].success
  /\ history # <<>>
  /\ tables = <<[name |-> "t", row_count |-> 0]>>

\* C15: when an execute call fails at the transport level, every cell of the store
\* with the targeted id ends not executing, with a result that has success = false
\* and as its error the response's error ("Internal Server Error"), else the failure
\* message ("Network Error"), else "Unknown error"; a direct run leaves the run-all
\* loop alone, and a run-all that awaited the call goes on to its pause.
C15_TransportFailureAttached ==
  [][(Settles /\ settled'.how = "rejected") =>
       /\ ~settled'.result.success
       /\ settled'.result.error \in {"Internal Server Error", "Network Error", "Unknown error"}
       /\ \A i \in 1..Len(cells') :
            cells'[i].id = settled'.cellId =>
              ~cells'[i].isExecuting /\ cells'[i].result = <<settled'.result>>
       /\ \A c \in executes :
            c.n = settled'.n =>
              /\ c \notin executes'
              /\ IF c.caller = "all"
                 THEN /\ runAll'.pc = "pause"
                      /\ runAll'.cells = runAll.cells /\ runAll'.idx = runAll.idx
                      /\ isRunningAll'
                 ELSE UNCHANGED <<runAll, isRunningAll>>]_vars

\* C15 happens: the one request of a run-all failed with neither a response nor a
\* message; the cell shows "Unknown error" and the loop is at its pause.
C15_Witness ==
  /\ issued = 1 /\ executes = {}
  /\ settled.how = "rejected" /\ settled.result.error = "Unknown error"
  /\ cells[1].result = <<settled.result>> /\ ~cells[1].isExecuting
  /\ runAll.pc = "pause" /\ isRunningAll

\* The ids a cell of the model may have.
LiveIds == {"cell-1", CellId(2), CellId(3)}

\* A cell with this id is executing.
Executing(id) == \E i \in 1..Len(cells) : cells[i].id = id /\ cells[i].isExecuting

\* C16: when every execute request is eventually settled, a cell that is executing
\* is eventually not executing.
C16_EventuallyNotExecuting == \A id \in LiveIds : Executing(id) ~> ~Executing(id)

\* C16 happens: the cell was run twice, the second time while the first request was
\* in flight; both requests are settled, the last by a failure, and the cell is not
\* executing.
C16_Witness ==
  /\ issued = 2 /\ executes = {}
  /\ settled.n = 1 /\ settled.how = "rejected"
  /\ ~Executing("cell-1")

\* C17: the run-in-progress flag is true exactly while an executeAllCells loop has
\* cells left to process, from its start until it has processed its last cell;
\* while it is true no second loop is started: the loop that is active stays the
\* one that it was, on the same cell list and moving forward.
C17_RunAllFlag ==
  [][/\ isRunningAll' = (runAll'.pc # "idle")
     /\ (runAll.pc # "idle" /\ runAll'.pc # "idle") =>
          /\ isRunningAll
          /\ runAll'.cells = runAll.cells
          /\ runAll'.idx >= runAll.idx]_vars

\* C17 happens: the flag is still true while the request of the last of three cells
\* is in flight.
C17_Witness ==
  /\ isRunningAll
  /\ runAll.pc = "await" /\ runAll.idx = 3
  /\ issued = 3 /\ \E c \in RunAllInFlight : c.n = 3

\* C18: a step that flips the isCollapsed of a cell is undone by toggleCellCollapse
\* on the same cell (two toggles give the original value back); it leaves the id,
\* query, result and isExecuting of every cell as they were and issues no request.
C18_ToggleTwice ==
  [][\A k \in 1..Len(cells) :
       (Len(cells') = Len(cells) /\ cells'[k].isCollapsed # cells[k].isCollapsed) =>
         /\ toggleCellCollapse(cells', cells[k].id) = cells
         /\ \A i \in 1..Len(cells) :
              /\ cells'[i].id = cells[i].id
              /\ cells'[i].query = cells[i].query
              /\ cells'[i].result = cells[i].result
              /\ cells'[i].isExecuting = cells[i].isExecuting
         /\ UNCHANGED <<issued, executes, tableCalls, historyCall, resetCalls, history>>]_vars

\* C18 happens: the cell is collapsed while it holds a result and while its next
\* request is in flight.
C18_Witness ==
  /\ cells[1].isCollapsed
  /\ cells[1].isExecuting /\ executes # {}
  /\ settled.n >= 1

\* C19: in every reachable state the history log holds at most MAX_HISTORY_ITEMS
\* items, also after the history load has replaced the log by the list of the
\* response.
C19_HistoryWithinCap == Len(history) <= MAX_HISTORY_ITEMS

\* C20: the items appended by executeCell since the page was loaded or last reset
\* are at the front of the log, newest first, as far as the cap lets them stay:
\* the response of the history load does not remove or replace them.
C20_LocalAppendsStay ==
  \A i \in 1..Min(Len(appended), MAX_HISTORY_ITEMS) :
    i <= Len(history) /\ history[i] = appended[i]

\* C21: the schema cache equals the table list of the successful tables response
\* that arrived last (the empty list before any has arrived), whatever the order
\* in which the requests were issued.
C21_LastArrivedWins == tables = arrived.tables

\* C21 happens: the response of the mount effect's request, issued first and
\* answered while the database was empty, arrived after the response of the refresh
\* that the CREATE TABLE triggered; the cache is empty though table t exists.
C21_Witness ==
  /\ arrived.origin = "mount" /\ arrived.before = "ddl"
  /\ tables = <<>>
  /\ db.exists
  /\ tableCalls = <<>>

\* A loadTables invocation ends without a successful response in this step, or
\* the loadHistory invocation ends in its catch branch.
LoadFails ==
  \/ Len(tableCalls') < Len(tableCalls) /\ arrived' = arrived
  \/ historyCall'.stage = "failed" /\ historyCall.stage # "failed"

C23_RefreshAwaited ==
  [][issued' = issued + 1 =>
       \A i \in 1..Len(tableCalls) : tableCalls[i].origin # "ddl"]_vars

\* C24: a cell's isExecuting changes from false to true only in a step that issues
\* an execute request for that cell's id (the start of executeCell), and from true
\* to false only in a step in which an execute call for that cell's id completes;
\* every other step (add, delete, edit, collapse, reset, history load, schema
\* refresh) leaves every cell's isExecuting as it is: an added cell does not change
\* the cells before it, and the cells a delete keeps are kept as they were.
StartsFor(id) == issued' = issued + 1 /\ \E c \in executes' \ executes : c.cellId = id

CompletesFor(id) == Settles /\ settled'.cellId = id

C24_ExecutingChanges ==
  [][ /\ \A i \in 1..Min(Len(cells), Len(cells')) :
           Len(cells') >= Len(cells) =>
             /\ (~cells[i].isExecuting /\ cells'[i].isExecuting) => StartsFor(cells[i].id)
             /\ (cells[i].isExecuting /\ ~cells'[i].isExecuting) => CompletesFor(cells[i].id)
      /\ Len(cells') < Len(cells) =>
           \A j \in 1..Len(cells') : \E i \in j..Len(cells) : cells'[j] = cells[i]
      /\ (~(\E id \in LiveIds : StartsFor(id) \/ CompletesFor(id)) /\ Len(cells') = Len(cells)) =>
           \A i \in 1..Len(cells) : cells'[i].isExecuting = cells[i].isExecuting
    ]_vars

\* A reset has cleared the results and the history load and the schema refreshes
\* are over while the first cell, edited and collapsed, is still executing next
\* to an added cell.
C24_Witness ==
  /\ Len(cells) = 2
  /\ cells[1].isExecuting /\ cells[1].isCollapsed /\ cells[1].query = QSelect
  /\ ~cells[2].isExecuting
  /\ resetSettled.how = "resolved"
  /\ historyCall.stage = "done"
  /\ tableCalls = <<>>
  /\ \E c \in executes : c.stage = "replied"

\* C28: add() makes the store one cell longer, the new cell is last, with an empty
\* query, no result, not executing and not collapsed, and the cells that were
\* there are unchanged at their positions.
C28_AddAppendsBlank ==
  [][ Len(cells') > Len(cells) =>
        /\ Len(cells') = Len(cells) + 1
        /\ SubSeq(cells', 1, Len(cells)) = cells
        /\ cells'[Len(cells')].query = <<>>
        /\ cells'[Len(cells')].result = Absent
        /\ ~cells'[Len(cells')].isExecuting
        /\ ~cells'[Len(cells')].isCollapsed
    ]_vars

\* A blank cell was added after a cell that holds a result and is collapsed.
C28_Witness ==
  /\ Len(cells) = 2
  /\ cells[1].result # Absent /\ cells[1].isCollapsed
  /\ cells[2] = newCell(2)

\* C26: a delete on a store of more than one cell removes one cell and nothing
\* else: the store gets shorter by exactly one, and the cells that remain are the
\* other cells, in their order and as they were.
C26_DeleteRemovesOne ==
  [][ Len(cells') < Len(cells) =>
        /\ Len(cells') = Len(cells) - 1
        /\ \E k \in 1..Len(cells) : cells' = RemoveAt(cells, k)
    ]_vars

\* C27: an edit changes the query of one cell and leaves that cell's result,
\* isExecuting and isCollapsed, every other cell, the cell order, the history, the
\* schema cache and the execute requests in flight as they were.
C27_UpdateQueryFrame ==
  [][ \A i \in 1..Len(cells) :
        (Len(cells') = Len(cells) /\ cells'[i].query # cells[i].query) =>
          /\ cells'[i] = [cells[i] EXCEPT !.query = cells'[i].query]
          /\ \A j \in (1..Len(cells)) \ {i} : cells'[j] = cells[j]
          /\ UNCHANGED <<history, tables, executes>>
    ]_vars

\* C30: in every reachable state a cell that is executing has no result, and a
\* step gives a cell a result only when it completes an execute call for that
\* cell and leaves the cell not executing.
C30_ExecutingHasNoResult ==
  /\ [](\A i \in 1..Len(cells) : cells[i].isExecuting => cells[i].result = Absent)
  /\ [][ \A i \in 1..Min(Len(cells), Len(cells')) :
           (cells'[i].result # Absent /\ cells'[i].result # cells[i].result) =>
             /\ ~cells'[i].isExecuting
             /\ CompletesFor(cells[i].id)
       ]_vars

\* The cell is run again after a run that left a result and a history item: it
\* is executing, and its result is gone.
C30_Witness ==
  /\ settled.n = 1 /\ settled.how = "resolved"
  /\ issued = 2
  /\ cells[1].isExecuting /\ cells[1].result = Absent
  /\ history # <<>>

\* C29: runs of different cells are not serialized.  While another cell is
\* executing, an idle cell with a non-blank query can be run (within the number of
\* requests of one behaviour), so the requests of two cells are in flight
\* together; and every response that has arrived can be processed next, as can
\* the loss of any request in flight, whatever the order the requests were issued in.
OthersExecuting(k) ==
  \E j \in 1..Len(cells) : cells[j].id # cells[k].id /\ cells[j].isExecuting

C29_NotSerialized ==
  /\ \A k \in 1..Len(cells) :
       ( /\ OthersExecuting(k)
         /\ ~cells[k].isExecuting
         /\ trim(cells[k].query) # <<>>
         /\ issued < MaxExec ) => ENABLED ExecuteCell(k)
  /\ \A c \in executes :
       /\ c.stage = "replied" => ENABLED ExecuteResolved(c)
       /\ ENABLED (\E err \in NetworkErrors : ExecuteRejected(c, err))

\* Both cells were run one after the other; the response of the second run has
\* been processed while the request of the first, still executing, is in flight.
C29_Witness ==
  \E c \in executes :
    /\ c.n = 1 /\ settled.n = 2 /\ settled.how = "resolved"
    /\ settled.cellId # c.cellId
    /\ Executing(c.cellId) /\ ~Executing(settled.cellId)

\* C25: when every execute request is eventually settled (and the timer of the
\* pause fires), a run-all that has started eventually finishes with the
\* run-in-progress flag false again, also when requests fail and cells are deleted
\* or edited during the run.
C25_RunAllFinishes == isRunningAll ~> (~isRunningAll /\ runAll = NoRunAll)

\* A run-all has finished after both its requests: the second was lost, and its
\* cell had been deleted by the time the request was settled.
C25_Witness ==
  /\ ~isRunningAll /\ runAll = NoRunAll
  /\ issued = 2 /\ executes = {}
  /\ settled.n = 2 /\ settled.how = "rejected"
  /\ \A i \in 1..Len(cells) : cells[i].id # settled.cellId

\* C34: the tables-loading flag is true in exactly the states where at least one
\* tables request is in flight, also when the requests of the mount effect, of the
\* refresh button, of DDL statements and of resets overlap.
C34_LoadingFlagExact == isLoadingTables <=> (tableCalls # <<>>)

\* C32: once a successful reset has cleared the results and the history, the
\* completion of an execute request that was issued before the reset completed
\* attaches no result to any cell and appends no history entry.
C32_StaleResponseDropped ==
  [][ (Settles /\ resetSettled.cleared >= 0 /\ settled'.n <= resetSettled.cleared) =>
        /\ \A i \in 1..Min(Len(cells), Len(cells')) : cells'[i].result = cells[i].result
        /\ history' = history
    ]_vars

\* C33: when a cell was deleted while its execute request was in flight, the
\* completion of that request (with a response or with a failure) leaves the
\* store's cells exactly as they were: the cell is not re-created, and no other
\* cell's result or isExecuting changes.
C33_OrphanResponseIgnored ==
  [][ (Settles /\ \E c \in executes : c.n = settled'.n /\ c.orphan) => cells' = cells ]_vars

\* C31: the execute requests of one run-all are exactly those for the cells that
\* were in the store with a non-blank query when it was invoked, in store order
\* and with the text of that moment.  The loop keeps the cell list of its
\* invocation; each of its requests is for the next non-blank cell of that list,
\* with that cell's id and text, whatever the store holds by then; it moves on
\* only by issuing such a request, and ends only when no non-blank cell of the
\* list is left.
Snapshot == IF runAll.pc = "idle" THEN cells ELSE runAll.cells

C31_RunAllSnapshot ==
  [][ /\ runAll'.pc # "idle" => runAll'.cells = Snapshot
      /\ \A c \in executes' :
           (c.caller = "all" /\ issued' = issued + 1 /\ c.n = issued') =>
             /\ runAll'.idx \in (runAll.idx + 1)..Len(Snapshot)
             /\ c.cellId = Snapshot[runAll'.idx].id
             /\ c.query = Snapshot[runAll'.idx].query
             /\ trim(c.query) # <<>>
             /\ \A m \in (runAll.idx + 1)..(runAll'.idx - 1) : trim(Snapshot[m].query) = <<>>
      /\ (runAll'.pc # "idle" /\ runAll'.idx # runAll.idx) =>
           /\ issued' = issued + 1
           /\ \E c \in executes' : c.caller = "all" /\ c.n = issued'
      /\ ((runAll.pc # "idle" \/ isRunningAll' # isRunningAll \/ runAll' # runAll)
            /\ runAll'.pc = "idle") =>
           \A m \in (runAll.idx + 1)..Len(Snapshot) : trim(Snapshot[m].query) = <<>>
    ]_vars

\* A run-all over cell-1 and cell-2 has finished after two requests.  During the
\* run the first cell was blanked, and it holds the result of its old text; the
\* second cell was deleted, and its request was sent and settled all the same; a
\* cell was added and given a query, and it was not executed.
C31_Witness ==
  /\ ~isRunningAll /\ runAll = NoRunAll
  /\ issued = 2 /\ executes = {}
  /\ Len(cells) = 2
  /\ cells[1].id = "cell-1" /\ cells[1].query = QBlank /\ cells[1].result # Absent
  /\ cells[2].id = CellId(3) /\ cells[2].query = QSelect /\ cells[2].result = Absent
  /\ settled.n = 2 /\ settled.cellId = CellId(2)

====
